---- MODULE Spec2Model ----
(***************************************************************************)
(* Shortest-path queries of path.py over a network G: the cost-selector    *)
(* cache, the single-source engine call, path reconstruction, the one-to-  *)
(* one / tree / matrix / agent entry points.                               *)
(*                                                                         *)
(* Node numbers are 0-based (G.map_id_to_no), node IDs are the external    *)
(* IDs; -1 is the "none" predecessor.  The engine (shortest_path_n of the  *)
(* shared library) and the methods of G are not part of path.py; they are  *)
(* modelled from the design document.                                      *)
(***************************************************************************)
EXTENDS Integers, Sequences, FiniteSets, TLC

(* ------------------------------------------------------------------ *)
(* Constants of the program                                            *)
(* ------------------------------------------------------------------ *)

\* consts.MAX_LABEL_COST, the engine's "unreachable" sentinel
MAX_LABEL_COST == 2147483647

\* the finite placeholder get_shortest_path returns when no path is found
NO_PATH_COST == 9999999

\* feet per mile, used by the walking transforms
FEET_PER_MILE == 5280

\* minutes per hour, used by the walking and biking transforms
MINUTES_PER_HOUR == 60

\* the "none" predecessor
NONE == -1

(* ------------------------------------------------------------------ *)
(* Bounds of the model                                                 *)
(* ------------------------------------------------------------------ *)

\* link costs of the generated graphs are drawn from 0..MaxCost
MaxCost == 2

\* at most MaxAgents agents in a column pool
MaxAgents == 3

(* ------------------------------------------------------------------ *)
(* The network: nodes and IDs                                          *)
(* ------------------------------------------------------------------ *)

\* G.node_size / G.get_node_size()
node_size == 4

NodeNos == 0 .. (node_size - 1)

\* G.map_no_to_id: node number -> external node ID
map_no_to_id == [no \in NodeNos |-> no + 1]

\* G.map_id_to_no: external node ID -> node number
map_id_to_no == [id \in {map_no_to_id[no] : no \in NodeNos} |-> id - 1]

KnownIds == DOMAIN map_id_to_no

\* an ID that is no key of G.map_id_to_no
UnknownId == 99

\* G.get_node_no(node_id)
get_node_no(node_id) == map_id_to_no[node_id]

\* G.links[link_no].get_link_id(): link number -> external link ID
get_link_id(link_no) == link_no + 101

\* the link number of an external link ID
LinkNoOfId(link_id) == link_id - 101

(* ------------------------------------------------------------------ *)
(* Helpers on sequences                                                *)
(* ------------------------------------------------------------------ *)

\* reversed(path)
Reversed(s) == [i \in 1 .. Len(s) |-> s[Len(s) + 1 - i]]

\* the elements of a finite set of integers in increasing order
RECURSIVE SortedSeq(_)
SortedSeq(S) ==
    IF S = {} THEN <<>>
    ELSE LET m == CHOOSE x \in S : \A y \in S : x <= y
         IN  <<m>> \o SortedSeq(S \ {m})

(* ------------------------------------------------------------------ *)
(* Graph View (methods of G used by the engine call)                   *)
(* ------------------------------------------------------------------ *)

LinkNos(g) == DOMAIN g.links

\* forward star: G.get_first_links()/get_last_links()/get_sorted_link_no_arr()
\* give, for a node, its outgoing links as one contiguous run of the links
\* sorted by source node
OutLinks(g, u) == SortedSeq({k \in LinkNos(g) : g.links[k].from_node_no = u})

\* the link's allowed-use tags intersect the mode filter G.get_agent_type_name()
LinkAllowed(g, k) == g.links[k].allowed_uses \cap g.agent_type # {}

\* the through-node rule: only nodes up to G.get_last_thru_node(), and the
\* origin itself, are expanded
Expandable(g, orig, u) == u <= g.last_thru_node \/ u = orig

(* ------------------------------------------------------------------ *)
(* Label-correcting engine: shortest_path_n (deque scan)               *)
(* ------------------------------------------------------------------ *)

\* the reset at the start of every engine call, with the origin queued
EngineInit(orig) ==
    [label  |-> [i \in NodeNos |-> IF i = orig THEN 0 ELSE MAX_LABEL_COST],
     npred  |-> [i \in NodeNos |-> NONE],
     lpred  |-> [i \in NodeNos |-> NONE],
     status |-> [i \in NodeNos |-> IF i = orig THEN "queued" ELSE "unqueued"],
     queue  |-> <<orig>>]

\* (faulty variant) an improved node is pushed to the back whatever its
\* status, also when it is in the queue already
Relax_PushAlways(g, st, u, k) ==
    LET v    == g.links[k].to_node_no
        cand == st.label[u] + g.link_cost_array[k]
    IN  IF ~LinkAllowed(g, k) \/ ~(cand < st.label[v]) THEN st
        ELSE [label  |-> [st.label EXCEPT ![v] = cand],
              npred  |-> [st.npred EXCEPT ![v] = u],
              lpred  |-> [st.lpred EXCEPT ![v] = k],
              status |-> [st.status EXCEPT ![v] = "queued"],
              queue  |-> Append(st.queue, v)]

\* relaxation of link k = (u -> v) from the scanned node u
Relax(g, st, u, k) ==
    LET v    == g.links[k].to_node_no
        cand == st.label[u] + g.link_cost_array[k]
    IN  IF ~LinkAllowed(g, k) \/ ~(cand < st.label[v]) THEN st
        ELSE [label  |-> [st.label EXCEPT ![v] = cand],
              npred  |-> [st.npred EXCEPT ![v] = u],
              lpred  |-> [st.lpred EXCEPT ![v] = k],
              status |-> [st.status EXCEPT ![v] = "queued"],
              queue  |-> CASE st.status[v] = "unqueued" -> Append(st.queue, v)
                           [] st.status[v] = "scanned"  -> <<v>> \o st.queue
                           [] OTHER                     -> st.queue]

\* the relaxations of the outgoing links ks of u, in forward-star order
RECURSIVE RelaxAll(_, _, _, _)
RelaxAll(g, st, u, ks) ==
    IF ks = <<>> THEN st
    ELSE RelaxAll(g, Relax(g, st, u, Head(ks)), u, Tail(ks))

\* one iteration of the scan loop: pop the front node and expand it
ScanStep(g, orig, st) ==
    LET u      == Head(st.queue)
        popped == [st EXCEPT !.queue = Tail(st.queue), !.status[u] = "scanned"]
    IN  IF Expandable(g, orig, u)
        THEN RelaxAll(g, popped, u, OutLinks(g, u))
        ELSE popped

\* the scan loop, until the queue is empty
RECURSIVE ScanLoop(_, _, _)
ScanLoop(g, orig, st) ==
    IF st.queue = <<>> THEN st ELSE ScanLoop(g, orig, ScanStep(g, orig, st))

\* shortest_path_n(origin, ...): the tree written into G's buffers
shortest_path_n(g, orig) == ScanLoop(g, orig, EngineInit(orig))

(* ------------------------------------------------------------------ *)
(* Methods of G used by path.py                                        *)
(* ------------------------------------------------------------------ *)

\* the cost of one link under a cost selector: length for 'dis...',
\* free-flow travel time otherwise
LinkCostOf(link, cost_type) ==
    IF cost_type = "distance" THEN link.length ELSE link.fftt

\* the cost array G.init_link_costs(cost_type) builds
CostArrayFor(g, cost_type) ==
    [k \in LinkNos(g) |-> LinkCostOf(g.links[k], cost_type)]

\* G.init_link_costs(cost_type): rebuild the link cost array (built_for
\* records the selector of the rebuild)
init_link_costs(g, cost_type) ==
    [g EXCEPT !.link_cost_array = CostArrayFor(g, cost_type),
              !.built_for = cost_type]

\* G.allocate_for_CAPI(): the tree buffers are allocated on the first call only
allocate_for_CAPI(g) ==
    IF g.has_capi_allocated THEN g
    ELSE [g EXCEPT !.has_capi_allocated = TRUE,
                   !.node_label_cost = [i \in NodeNos |-> MAX_LABEL_COST],
                   !.node_preds = [i \in NodeNos |-> NONE],
                   !.link_preds = [i \in NodeNos |-> NONE]]

\* G.get_path_cost(to_node_id, cost_type): the label of the destination
get_path_cost(g, to_node_id, cost_type) ==
    g.node_label_cost[map_id_to_no[to_node_id]]

\* G.get_length_unit()
get_length_unit == "mile"

(* ------------------------------------------------------------------ *)
(* path.py                                                             *)
(* ------------------------------------------------------------------ *)

\* (faulty variant) G.get_node_preds() is handed over in the place of
\* G.get_link_preds() too, so the link predecessor buffer is never written
optimal_label_correcting_CAPI_NoLinkPreds(g, origin_node_no) ==
    LET t == shortest_path_n(g, origin_node_no)
    IN  [g EXCEPT !.node_label_cost = t.label,
                  !.node_preds = t.npred]

\* (faulty variant) the label and predecessor buffers are not reset at the
\* start of the call: the scan starts from what the previous call left
optimal_label_correcting_CAPI_WarmStart(g, origin_node_no) ==
    LET st0 == [EngineInit(origin_node_no) EXCEPT
                  !.label = [i \in NodeNos |-> IF i = origin_node_no THEN 0
                                               ELSE g.node_label_cost[i]],
                  !.npred = [i \in NodeNos |-> IF i = origin_node_no THEN NONE
                                               ELSE g.node_preds[i]],
                  !.lpred = [i \in NodeNos |-> IF i = origin_node_no THEN NONE
                                               ELSE g.link_preds[i]]]
        t == ScanLoop(g, origin_node_no, st0)
    IN  [g EXCEPT !.node_label_cost = t.label,
                  !.node_preds = t.npred,
                  !.link_preds = t.lpred]

\* (faulty variant) G.get_link_preds() and G.get_node_preds() are handed
\* over in each other's place
optimal_label_correcting_CAPI_SwappedPreds(g, origin_node_no) ==
    LET t == shortest_path_n(g, origin_node_no)
    IN  [g EXCEPT !.node_label_cost = t.label,
                  !.node_preds = t.lpred,
                  !.link_preds = t.npred]

\* (faulty variant) the last node is handed over as the through-node
\* boundary in the place of G.get_last_thru_node()
optimal_label_correcting_CAPI_NoThruLimit(g, origin_node_no) ==
    LET t == shortest_path_n([g EXCEPT !.last_thru_node = node_size - 1],
                             origin_node_no)
    IN  [g EXCEPT !.node_label_cost = t.label,
                  !.node_preds = t.npred,
                  !.link_preds = t.lpred]

\* (faulty variant) the mode test is inverted: the links whose allowed uses
\* do not meet the agent type are the ones relaxed
optimal_label_correcting_CAPI_InvertedFilter(g, origin_node_no) ==
    LET inv == [g EXCEPT !.links =
                   [k \in LinkNos(g) |->
                       [g.links[k] EXCEPT !.allowed_uses =
                           IF LinkAllowed(g, k) THEN {} ELSE g.agent_type]]]
        t == shortest_path_n(inv, origin_node_no)
    IN  [g EXCEPT !.node_label_cost = t.label,
                  !.node_preds = t.npred,
                  !.link_preds = t.lpred]

\* _optimal_label_correcting_CAPI(G, origin_node_no): the engine overwrites
\* G's label and predecessor buffers
optimal_label_correcting_CAPI(g, origin_node_no) ==
    LET t == shortest_path_n(g, origin_node_no)
    IN  [g EXCEPT !.node_label_cost = t.label,
                  !.node_preds = t.npred,
                  !.link_preds = t.lpred]

\* the record of one engine invocation kept in G.engine_log: the origin,
\* the selector the query asked for, the selector the cost array was last
\* built for, and whether the array equals the requested selector's array
EngineCall(g, orig_node_no, cost_type) ==
    [orig      |-> orig_node_no,
     cost_type |-> cost_type,
     built_for |-> g.built_for,
     current   |-> g.link_cost_array = CostArrayFor(g, cost_type)]

\* the origin number handed to the engine
OrigNodeNo(orig_node_id) == get_node_no(orig_node_id)

\* whether single_source_shortest_path rebuilds the cost array
NeedsRebuild(prev, cost_type) == prev # cost_type

\* single_source_shortest_path(G, orig_node_id, cost_type); cx.g is G and
\* cx.prev is the module-level _prev_cost_type
single_source_shortest_path(cx, orig_node_id, cost_type) ==
    LET g1 == allocate_for_CAPI(cx.g)
        g2 == IF NeedsRebuild(cx.prev, cost_type)
              THEN init_link_costs(g1, cost_type) ELSE g1
        orig_node_no == OrigNodeNo(orig_node_id)
        g3 == optimal_label_correcting_CAPI(g2, orig_node_no)
    IN  [g    |-> [g3 EXCEPT !.engine_log =
                       Append(@, EngineCall(g2, orig_node_no, cost_type))],
         prev |-> IF NeedsRebuild(cx.prev, cost_type) THEN cost_type ELSE cx.prev]

\* the backward walk over node predecessors, from curr_node_no
RECURSIVE NodeWalk(_, _)
NodeWalk(g, curr_node_no) ==
    IF curr_node_no >= 0
    THEN <<curr_node_no>> \o NodeWalk(g, g.node_preds[curr_node_no])
    ELSE <<>>

\* the backward walk over link predecessors, from curr_node_no
RECURSIVE LinkWalk(_, _)
LinkWalk(g, curr_node_no) ==
    LET curr_link_no == g.link_preds[curr_node_no]
    IN  IF curr_link_no >= 0
        THEN <<curr_link_no>> \o LinkWalk(g, g.node_preds[curr_node_no])
        ELSE <<>>

\* (faulty variant) the backward walk is yielded as it was collected
YieldOrder_Backward(path) == path

\* the order in which output_path_sequence yields the backward walk
YieldOrder(path) == Reversed(path)

\* output_path_sequence(G, to_node_id, type): node IDs, or link IDs, from
\* the origin to the destination
output_path_sequence(g, to_node_id, type) ==
    LET curr_node_no == map_id_to_no[to_node_id]
    IN  IF type = "node"
        THEN LET path == YieldOrder(NodeWalk(g, curr_node_no))
             IN  [i \in 1 .. Len(path) |-> map_no_to_id[path[i]]]
        ELSE LET path == YieldOrder(LinkWalk(g, curr_node_no))
             IN  [i \in 1 .. Len(path) |-> get_link_id(path[i])]

\* _get_path_sequence_str(G, to_node_id, seq_type): the IDs joined by ';'
\* (kept as the sequence of IDs)
get_path_sequence_str(g, to_node_id, seq_type) ==
    output_path_sequence(g, to_node_id, seq_type)

(* ------------------------------------------------------------------ *)
(* Query entry points.  Each takes the context cx = [g, prev] and       *)
(* returns [cx, error, result]; error is "none" when nothing is raised. *)
(* ------------------------------------------------------------------ *)

NoResult == [kind |-> "none"]

Raise(cx, err) == [cx |-> cx, error |-> err, result |-> NoResult]

Return(cx, res) == [cx |-> cx, error |-> "none", result |-> res]

\* (faulty variant) the comparison with the sentinel is strict
IsNoPath_Strict(path_cost) == path_cost > MAX_LABEL_COST

\* whether find_shortest_path reports 'no path' for this path cost
IsNoPath(path_cost) == path_cost >= MAX_LABEL_COST

\* find_shortest_path(G, from_node_id, to_node_id, seq_type, cost_type)
find_shortest_path(cx, from_node_id, to_node_id, seq_type, cost_type) ==
    IF from_node_id \notin DOMAIN map_id_to_no THEN Raise(cx, "node_not_in_network")
    ELSE IF to_node_id \notin DOMAIN map_id_to_no THEN Raise(cx, "node_not_in_network")
    ELSE
      LET c1 == single_source_shortest_path(cx, from_node_id, cost_type)
          path_cost == get_path_cost(c1.g, to_node_id, cost_type)
      IN  IF IsNoPath(path_cost)
          THEN Return(c1, [kind |-> "infinity", cost_type |-> cost_type,
                           walked |-> FALSE])
          ELSE Return(c1, [kind |-> "path", cost_type |-> cost_type,
                           path_cost |-> path_cost,
                           unit |-> IF cost_type = "distance"
                                    THEN get_length_unit ELSE "minute",
                           seq_type |-> seq_type,
                           path |-> get_path_sequence_str(c1.g, to_node_id, seq_type),
                           walked |-> TRUE])

\* (faulty variant) the path cost is returned as it is, the sentinel included
ReportedCost_Raw(path_cost) == path_cost

\* the value get_shortest_path returns for a path cost
ReportedCost(path_cost) ==
    IF path_cost >= MAX_LABEL_COST THEN NO_PATH_COST ELSE path_cost

\* get_shortest_path(G, from_node_id, to_node_id, cost_type)
get_shortest_path(cx, from_node_id, to_node_id, cost_type) ==
    IF from_node_id \notin DOMAIN map_id_to_no THEN Raise(cx, "node_not_in_network")
    ELSE IF to_node_id \notin DOMAIN map_id_to_no THEN Raise(cx, "node_not_in_network")
    ELSE
      LET c1 == single_source_shortest_path(cx, from_node_id, cost_type)
          path_cost == get_path_cost(c1.g, to_node_id, cost_type)
      IN  Return(c1, [kind |-> "cost", cost |-> ReportedCost(path_cost)])

\* what get_shortest_path_tree returns after the engine call: the dictionary
\* construction is inside a string literal, so the function falls off its end
TreeResult(g, from_node_id, seq_type, cost_type) == [kind |-> "None"]

\* get_shortest_path_tree(G, from_node_id, seq_type, cost_type, integer_node_id)
get_shortest_path_tree(cx, from_node_id, seq_type, cost_type) ==
    IF from_node_id \notin DOMAIN map_id_to_no THEN Raise(cx, "node_not_in_network")
    ELSE
      LET c1 == single_source_shortest_path(cx, from_node_id, cost_type)
      IN  Return(c1, TreeResult(c1.g, from_node_id, seq_type, cost_type))

\* benchmark_apsp(G): one engine call per node ID, selector 'c'
RECURSIVE BenchmarkLoop(_, _)
BenchmarkLoop(cx, ids) ==
    IF ids = <<>> THEN cx
    ELSE BenchmarkLoop(single_source_shortest_path(cx, Head(ids), "c"), Tail(ids))

benchmark_apsp(cx) == Return(BenchmarkLoop(cx, SortedSeq(KnownIds)), NoResult)

(* ------------------------------------------------------------------ *)
(* find_path_for_agents                                                *)
(* ------------------------------------------------------------------ *)

\* the initial value '' of from_node_id_prev: no node ID equals it
NO_ID == 0

\* G.setup_agents(column_pool): one agent per (origin, destination) pair
setup_agents(g, column_pool) ==
    [g EXCEPT !.agents =
        [i \in 1 .. Len(column_pool) |->
            [o_node_id |-> column_pool[i][1], d_node_id |-> column_pool[i][2],
             path_cost |-> 0, node_path |-> <<>>, link_path |-> <<>>]]]

\* G.get_agent_count()
get_agent_count(g) == Len(g.agents)

\* the link predecessors met on the backward node walk, skipping "none"
RECURSIVE AgentLinkWalk(_, _)
AgentLinkWalk(g, curr_node_no) ==
    IF curr_node_no >= 0
    THEN (IF g.link_preds[curr_node_no] >= 0
          THEN <<g.link_preds[curr_node_no]>> ELSE <<>>)
         \o AgentLinkWalk(g, g.node_preds[curr_node_no])
    ELSE <<>>

\* (faulty variant) the tree is recomputed for every agent
NeedsEngine_Always(from_node_id, from_node_id_prev) == TRUE

\* (faulty variant) the tree is computed for the first origin only
NeedsEngine_FirstOnly(from_node_id, from_node_id_prev) == from_node_id_prev = NO_ID

\* whether the loop calls the engine for this agent's origin
NeedsEngine(from_node_id, from_node_id_prev) == from_node_id # from_node_id_prev

\* the body of the loop for agent i; ls = [cx, from_node_id_prev, error,
\* trace], where trace notes per agent what the loop did: "same_od" (skipped),
\* "raised", "engine" (tree recomputed) or "reused" (tree of the previous origin)
AgentBody(ls, i, engine_type) ==
    LET agent == ls.cx.g.agents[i]
        from_node_id == agent.o_node_id
        to_node_id == agent.d_node_id
    IN  IF from_node_id = to_node_id
        THEN [ls EXCEPT !.trace = Append(@, "same_od")]
        ELSE IF from_node_id \notin DOMAIN map_id_to_no
             THEN [ls EXCEPT !.error = "node_not_in_network",
                             !.trace = Append(@, "raised")]
        ELSE IF to_node_id \notin DOMAIN map_id_to_no
             THEN [ls EXCEPT !.error = "node_not_in_network",
                             !.trace = Append(@, "raised")]
        ELSE
          LET recompute == NeedsEngine(from_node_id, ls.from_node_id_prev)
              c1 == IF recompute
                    THEN single_source_shortest_path(ls.cx, from_node_id, engine_type)
                    ELSE ls.cx
              curr_node_no == map_id_to_no[to_node_id]
              node_path == NodeWalk(c1.g, curr_node_no)
              link_path == AgentLinkWalk(c1.g, curr_node_no)
              g1 == [c1.g EXCEPT !.agents[i].path_cost =
                                      c1.g.node_label_cost[curr_node_no]]
              g2 == IF link_path = <<>> THEN g1
                    ELSE [g1 EXCEPT !.agents[i].node_path = node_path,
                                    !.agents[i].link_path = link_path]
          IN  [cx |-> [g |-> g2, prev |-> c1.prev],
               from_node_id_prev |-> IF recompute THEN from_node_id
                                     ELSE ls.from_node_id_prev,
               error |-> "none",
               trace |-> Append(ls.trace, IF recompute THEN "engine" ELSE "reused")]

\* for agent in G.agents, from agent i on; an exception ends the loop
RECURSIVE AgentLoop(_, _, _)
AgentLoop(ls, i, engine_type) ==
    IF i > Len(ls.cx.g.agents) \/ ls.error # "none" THEN ls
    ELSE AgentLoop(AgentBody(ls, i, engine_type), i + 1, engine_type)

\* find_path_for_agents(G, column_pool, engine_type)
find_path_for_agents(cx, column_pool, engine_type) ==
    LET g0 == IF get_agent_count(cx.g) = 0
              THEN setup_agents(cx.g, column_pool) ELSE cx.g
        ls == AgentLoop([cx |-> [g |-> g0, prev |-> cx.prev],
                         from_node_id_prev |-> NO_ID, error |-> "none",
                         trace |-> <<>>],
                        1, engine_type)
    IN  [cx |-> ls.cx, error |-> ls.error,
         result |-> [kind |-> "agents", trace |-> ls.trace]]

(* ------------------------------------------------------------------ *)
(* Matrix Assembler                                                    *)
(* ------------------------------------------------------------------ *)

\* compute_row_distances(G, row_node, row_nodes, cost_type): the columns
\* from index j on; returns [cx, error, row]
RECURSIVE RowFrom(_, _, _, _, _)
RECURSIVE RowAfter(_, _, _, _, _)
RowFrom(cx, row_node, row_nodes, cost_type, j) ==
    IF j > Len(row_nodes) THEN [cx |-> cx, error |-> "none", row |-> <<>>]
    ELSE RowAfter(get_shortest_path(cx, row_node, row_nodes[j], cost_type),
                  row_node, row_nodes, cost_type, j)

\* the row from column j on, r being what get_shortest_path gave for column j
RowAfter(r, row_node, row_nodes, cost_type, j) ==
    IF r.error # "none"
    THEN [cx |-> r.cx, error |-> r.error, row |-> <<>>]
    ELSE LET rest == RowFrom(r.cx, row_node, row_nodes, cost_type, j + 1)
         IN  [cx |-> rest.cx, error |-> rest.error,
              row |-> <<r.result.cost>> \o rest.row]

compute_row_distances(cx, row_node, row_nodes, cost_type) ==
    RowFrom(cx, row_node, row_nodes, cost_type, 1)

\* the parallel map run in the calling process (a single job): the rows from
\* index i on, one after the other on G itself.
\* Returns [cx, error, matrix, used]; used[i] is the cost array row i read.
RECURSIVE RowsInProcess(_, _, _, _)
RECURSIVE RowsInProcessAfter(_, _, _, _)
RowsInProcess(cx, row_nodes, cost_type, i) ==
    IF i > Len(row_nodes)
    THEN [cx |-> cx, error |-> "none", matrix |-> <<>>, used |-> <<>>]
    ELSE RowsInProcessAfter(
             compute_row_distances(cx, row_nodes[i], row_nodes, cost_type),
             row_nodes, cost_type, i)

\* the rows from index i on, r being what compute_row_distances gave for row i
RowsInProcessAfter(r, row_nodes, cost_type, i) ==
    IF r.error # "none"
    THEN [cx |-> r.cx, error |-> r.error, matrix |-> <<>>, used |-> <<>>]
    ELSE LET rest == RowsInProcess(r.cx, row_nodes, cost_type, i + 1)
         IN  [cx |-> rest.cx, error |-> rest.error,
              matrix |-> <<r.row>> \o rest.matrix,
              used |-> <<r.cx.g.link_cost_array>> \o rest.used]

\* the parallel map run by worker processes: the task of row i runs in worker
\* assign[i] on its own pickled copy of G, under that worker's _prev_cost_type
\* wprev[assign[i]]; the caller's G and _prev_cost_type are not written.
\* Returns [wprev, log, error, matrix, used].
RECURSIVE RowsInWorkers(_, _, _, _, _, _)
RECURSIVE RowsInWorkersAfter(_, _, _, _, _, _, _)
RowsInWorkers(g, wprev, assign, row_nodes, cost_type, i) ==
    IF i > Len(row_nodes)
    THEN [wprev |-> wprev, log |-> <<>>, error |-> "none",
          matrix |-> <<>>, used |-> <<>>]
    ELSE RowsInWorkersAfter(
             compute_row_distances([g |-> g, prev |-> wprev[assign[i]]],
                                   row_nodes[i], row_nodes, cost_type),
             g, wprev, assign, row_nodes, cost_type, i)

\* the rows from index i on, r being what compute_row_distances gave for row i
\* in worker assign[i]
RowsInWorkersAfter(r, g, wprev, assign, row_nodes, cost_type, i) ==
    LET wprev1 == [wprev EXCEPT ![assign[i]] = r.cx.prev]
    IN  IF r.error # "none"
        THEN [wprev |-> wprev1, log |-> r.cx.g.engine_log, error |-> r.error,
              matrix |-> <<>>, used |-> <<>>]
        ELSE LET rest == RowsInWorkers(g, wprev1, assign, row_nodes,
                                       cost_type, i + 1)
             IN  [wprev |-> rest.wprev,
                  log |-> r.cx.g.engine_log \o rest.log,
                  error |-> rest.error,
                  matrix |-> <<r.row>> \o rest.matrix,
                  used |-> <<r.cx.g.link_cost_array>> \o rest.used]

\* np.array(results): the matrix of the rows r, nothing when a row raised
MatrixOf(r, row_nodes) ==
    IF r.error # "none" THEN NoResult
    ELSE [kind |-> "matrix", row_nodes |-> row_nodes,
          matrix |-> r.matrix, used |-> r.used]

\* what the call leaves when the rows r ran in the calling process
AfterInProcess(r, par, row_nodes) ==
    [cx |-> r.cx, wprev |-> par.wprev, error |-> r.error,
     result |-> MatrixOf(r, row_nodes)]

\* what the call leaves when the rows r ran in worker processes
AfterWorkers(r, cx, row_nodes) ==
    [cx |-> [cx EXCEPT !.g.engine_log = @ \o r.log],
     wprev |-> r.wprev, error |-> r.error,
     result |-> MatrixOf(r, row_nodes)]

\* create_numpy_matrix_parallel(G, row_nodes, cost_type).  par = [backend,
\* assign, wprev]: whether joblib runs the rows in the calling process or in
\* worker processes, the worker of each row, the workers' _prev_cost_type.
\* Returns [cx, wprev, error, result].
create_numpy_matrix_parallel(cx, row_nodes, cost_type, par) ==
    IF par.backend = "in_process"
    THEN AfterInProcess(RowsInProcess(cx, row_nodes, cost_type, 1),
                        par, row_nodes)
    ELSE AfterWorkers(RowsInWorkers([cx.g EXCEPT !.engine_log = <<>>], par.wprev,
                                    par.assign, row_nodes, cost_type, 1),
                      cx, row_nodes)

\* the centroid rows: the zone IDs of the nodes that have one, in node order
RowNodes(g) ==
    LET nos == SortedSeq({i \in NodeNos : g.zone_id[i] # NO_ID})
    IN  [k \in 1 .. Len(nos) |-> g.zone_id[nos[k]]]

\* (length * 5280) / ffs / 60: walking time in minutes
WalkFftt(length, ffs) == ((length * FEET_PER_MILE) \div ffs) \div MINUTES_PER_HOUR

\* length / ffs * 60: biking time in minutes
BikeFftt(length, ffs) == (length * MINUTES_PER_HOUR) \div ffs

\* the rewrite of G.links[i].fftt for the mode
ModeTransform(g, mode) ==
    [g EXCEPT !.links =
        [k \in LinkNos(g) |->
            CASE mode.type = "p" ->
                   [g.links[k] EXCEPT !.fftt = WalkFftt(g.links[k].length, mode.ffs)]
              [] mode.type = "t" ->
                   IF "p" \in g.links[k].allowed_uses
                   THEN [g.links[k] EXCEPT !.fftt = WalkFftt(g.links[k].length, mode.ffs)]
                   ELSE g.links[k]
              [] mode.type = "b" ->
                   [g.links[k] EXCEPT !.fftt = BikeFftt(g.links[k].length, mode.ffs)]
              [] OTHER -> g.links[k]]]

\* the output types find_shortest_path_network accepts
valid_types == {".omx", ".csv"}

\* the matrix r is written to the output file
SaveMatrix(r) ==
    [r EXCEPT !.result = IF r.error # "none" THEN NoResult
                         ELSE [r.result EXCEPT !.kind = "saved_matrix"]]

\* what find_shortest_path_network does after the output-type check
NetworkBody(cx, cost_type, mode, par) ==
    SaveMatrix(create_numpy_matrix_parallel(
                   [cx EXCEPT !.g = ModeTransform(cx.g, mode)],
                   RowNodes(cx.g), cost_type, par))

\* (faulty variant) the output type is checked only where the matrix is saved
find_shortest_path_network_LateCheck(cx, output_type, cost_type, mode, par) ==
    LET r == NetworkBody(cx, cost_type, mode, par)
    IN  IF output_type \notin valid_types
        THEN [r EXCEPT !.error = "unsupported_output_type", !.result = NoResult]
        ELSE r

\* find_shortest_path_network(G, output_dir, output_type, cost_type, mode)
find_shortest_path_network(cx, output_type, cost_type, mode, par) ==
    IF output_type \notin valid_types
    THEN [cx |-> cx, wprev |-> par.wprev, error |-> "unsupported_output_type",
          result |-> NoResult]
    ELSE NetworkBody(cx, cost_type, mode, par)

(* ------------------------------------------------------------------ *)
(* State                                                               *)
(* ------------------------------------------------------------------ *)

VARIABLES
    G,               \* the loaded networks: network name -> network object
    prev_cost_type,  \* the module-level _prev_cost_type of the calling process
    worker_prev,     \* the _prev_cost_type of each worker process
    lastOp           \* the last call made: its arguments, error and result

vars == <<G, prev_cost_type, worker_prev, lastOp>>

\* the worker processes of the parallel map; each has its own copy of the
\* module-level _prev_cost_type
Workers == DOMAIN worker_prev

\* a network as loaded: no tree buffers yet, the cost array holding the
\* free-flow travel times, no agents
LoadedNet(links, last_thru_node, agent_type, zones) ==
    [links           |-> links,
     last_thru_node  |-> last_thru_node,
     agent_type      |-> agent_type,
     zone_id         |-> [i \in NodeNos |-> IF i \in zones THEN map_no_to_id[i]
                                            ELSE NO_ID],
     link_cost_array |-> [k \in DOMAIN links |-> links[k].fftt],
     built_for       |-> "time",
     has_capi_allocated |-> FALSE,
     node_label_cost |-> [i \in NodeNos |-> MAX_LABEL_COST],
     node_preds      |-> [i \in NodeNos |-> NONE],
     link_preds      |-> [i \in NodeNos |-> NONE],
     agents          |-> <<>>,
     engine_log      |-> <<>>]

Link(from, to, fftt, length, uses) ==
    [from_node_no |-> from, to_node_no |-> to, fftt |-> fftt,
     length |-> length, allowed_uses |-> uses]

\* the diamond network: 1->2 (1 min), 1->3 (4 min), 2->4 (2 min), 3->4 (1 min);
\* the lengths make 1->3->4 the shortest by distance; centroids 1, 3 and 4
DiamondLinks ==
    (0 :> Link(0, 1, 1, 2, {"a"}))    @@ (1 :> Link(0, 2, 4, 1, {"a", "p"})) @@
    (2 :> Link(1, 3, 2, 2, {"a"}))    @@ (3 :> Link(2, 3, 1, 1, {"a", "p"}))

DiamondNet == LoadedNet(DiamondLinks, node_size - 1, {"a"}, {0, 2, 3})

CostTypes == {"time", "distance"}

SeqTypes == {"node", "link"}

QueryIds == KnownIds \cup {UnknownId}

OutputTypes == {".omx", ".csv", ".txt"}

\* the modes of find_shortest_path_network: auto, pedestrian, transit, bike
Modes ==
    {[type |-> "a", name |-> "auto", ffs |-> 60],
     [type |-> "p", name |-> "walk", ffs |-> 44],
     [type |-> "t", name |-> "transit", ffs |-> 44],
     [type |-> "b", name |-> "bike", ffs |-> 12]}

NoOp == [op |-> "none", net |-> "none", args |-> <<>>, error |-> "none",
         result |-> NoResult]

\* the context of a call on network n, with the engine log of the call empty
Cx(n) == [g |-> [G[n] EXCEPT !.engine_log = <<>>], prev |-> prev_cost_type]

\* the state after a call that returned r; a call is made when the caller
\* holds no result of an earlier call
Done(n, op, args, r) ==
    /\ lastOp = NoOp
    /\ G' = [G EXCEPT ![n] = r.cx.g]
    /\ prev_cost_type' = r.cx.prev
    /\ lastOp' = [op |-> op, net |-> n, args |-> args, error |-> r.error,
                  result |-> r.result]

Init ==
    /\ G = [n \in {"A"} |-> DiamondNet]
    /\ prev_cost_type = "time"
    /\ worker_prev = [w \in {"w1"} |-> "time"]
    /\ lastOp = NoOp

(* ------------------------------------------------------------------ *)
(* Actions: one per entry point                                        *)
(* ------------------------------------------------------------------ *)

FindShortestPath ==
    \E n \in DOMAIN G, from \in QueryIds, to \in QueryIds,
       seq_type \in SeqTypes, cost_type \in CostTypes :
        /\ Done(n, "find_shortest_path", <<from, to, seq_type, cost_type>>,
                find_shortest_path(Cx(n), from, to, seq_type, cost_type))
        /\ UNCHANGED worker_prev

GetShortestPath ==
    \E n \in DOMAIN G, from \in QueryIds, to \in QueryIds, cost_type \in CostTypes :
        /\ Done(n, "get_shortest_path", <<from, to, cost_type>>,
                get_shortest_path(Cx(n), from, to, cost_type))
        /\ UNCHANGED worker_prev

GetShortestPathTree ==
    \E n \in DOMAIN G, from \in QueryIds, seq_type \in SeqTypes,
       cost_type \in CostTypes :
        /\ Done(n, "get_shortest_path_tree", <<from, seq_type, cost_type>>,
                get_shortest_path_tree(Cx(n), from, seq_type, cost_type))
        /\ UNCHANGED worker_prev

BenchmarkApsp ==
    \E n \in DOMAIN G :
        /\ Done(n, "benchmark_apsp", <<>>, benchmark_apsp(Cx(n)))
        /\ UNCHANGED worker_prev

\* how joblib may run the rows: in the calling process, or each row in one
\* of the worker processes
ParChoices(row_nodes) ==
    {[backend |-> "in_process", assign |-> <<>>, wprev |-> worker_prev]}
    \cup {[backend |-> "workers", assign |-> a, wprev |-> worker_prev] :
            a \in [1 .. Len(row_nodes) -> Workers]}

\* the lists of centroid IDs: every non-empty set of node IDs, in node order
RowNodeLists == {SortedSeq(S) : S \in (SUBSET KnownIds) \ {{}}}

CreateNumpyMatrixParallel ==
    \E n \in DOMAIN G, row_nodes \in RowNodeLists, cost_type \in CostTypes :
      \E par \in ParChoices(row_nodes) :
        LET r == create_numpy_matrix_parallel(Cx(n), row_nodes, cost_type, par)
        IN  /\ Done(n, "create_numpy_matrix_parallel", <<row_nodes, cost_type>>, r)
            /\ worker_prev' = r.wprev

FindShortestPathNetwork ==
    \E n \in DOMAIN G, output_type \in OutputTypes, cost_type \in CostTypes,
       mode \in Modes :
      \E par \in ParChoices(RowNodes(G[n])) :
        LET r == find_shortest_path_network(Cx(n), output_type, cost_type, mode, par)
        IN  /\ Done(n, "find_shortest_path_network",
                    <<output_type, cost_type, mode.type>>, r)
            /\ worker_prev' = r.wprev

\* the (origin ID, destination ID) pairs of the column pools: same origin and
\* destination, reachable, unreachable, unknown origin, unknown destination
AgentPairs ==
    {<<1, 1>>, <<3, 3>>, <<1, 4>>, <<3, 4>>, <<3, 1>>, <<UnknownId, 4>>,
     <<1, UnknownId>>, <<UnknownId, UnknownId>>}

\* the column pools handed to find_path_for_agents
ColumnPools == UNION {[1 .. len -> AgentPairs] : len \in 1 .. MaxAgents}

\* the column pool is read only when G has no agents yet
FindPathForAgents ==
    \E n \in DOMAIN G :
      \E column_pool \in IF get_agent_count(G[n]) = 0 THEN ColumnPools ELSE {<<>>} :
        /\ Done(n, "find_path_for_agents", column_pool,
                find_path_for_agents(Cx(n), column_pool, "c"))
        /\ UNCHANGED worker_prev

\* a worker process is replaced by a fresh one, which imports path.py anew
WorkerRespawn ==
    \E w \in Workers :
        /\ lastOp = NoOp
        /\ worker_prev[w] # "time"
        /\ worker_prev' = [worker_prev EXCEPT ![w] = "time"]
        /\ UNCHANGED <<G, prev_cost_type, lastOp>>

\* the caller takes the result (or the exception) of the call
TakeResult ==
    /\ lastOp # NoOp
    /\ lastOp' = NoOp
    /\ UNCHANGED <<G, prev_cost_type, worker_prev>>

Next ==
    \/ FindShortestPath
    \/ GetShortestPath
    \/ GetShortestPathTree
    \/ BenchmarkApsp
    \/ FindShortestPathNetwork
    \/ WorkerRespawn
    \/ TakeResult

Spec == Init /\ [][Next]_vars

\* the matrix computations over every list of centroids, between tree
\* queries (which switch the selector) and worker restarts
NextMatrix ==
    \/ CreateNumpyMatrixParallel
    \/ GetShortestPathTree
    \/ WorkerRespawn
    \/ TakeResult


(* ------------------------------------------------------------------ *)
(* The engine on generated graphs                                      *)
(* ------------------------------------------------------------------ *)

\* the links of the generated graphs: the diamond, a link 3->2 that can
\* improve a scanned node, and a link 4->1 that closes cycles; link 3->4 is
\* pedestrian-only; every length is 1
GeneratedLinks(cost) ==
    (0 :> Link(0, 1, cost[0], 1, {"a"}))      @@
    (1 :> Link(0, 2, cost[1], 1, {"a", "p"})) @@
    (2 :> Link(1, 3, cost[2], 1, {"a"}))      @@
    (3 :> Link(2, 3, cost[3], 1, {"p"}))      @@
    (4 :> Link(2, 1, cost[4], 1, {"a", "p"})) @@
    (5 :> Link(3, 0, cost[5], 1, {"a"}))

\* the mode filters of the generated networks
ModeFilters == {{"a"}, {"a", "p"}}

\* the through-node boundaries of the generated networks
ThruBoundaries == {1, node_size - 1}

GeneratedNets ==
    {LoadedNet(GeneratedLinks(cost), thru, filter, {})
        : cost \in [0 .. 5 -> 0 .. MaxCost],
          thru \in ThruBoundaries, filter \in ModeFilters}

InitEngine ==
    /\ G \in [{"A"} -> GeneratedNets \cup {DiamondNet}]
    /\ prev_cost_type = "time"
    /\ worker_prev = [w \in {"w1"} |-> "time"]
    /\ lastOp = NoOp

\* single_source_shortest_path(G, orig_node_id, cost_type), called directly
\* with the selector the generated cost arrays were built for
SingleSourceShortestPath ==
    \E n \in DOMAIN G, orig_node_id \in KnownIds, cost_type \in {"time"} :
        LET c1 == single_source_shortest_path(Cx(n), orig_node_id, cost_type)
        IN  /\ G' = [G EXCEPT ![n] = c1.g]
            /\ prev_cost_type' = c1.prev
            /\ UNCHANGED <<worker_prev, lastOp>>

NextEngine == SingleSourceShortestPath

SpecEngine == InitEngine /\ [][NextEngine]_vars

(* ------------------------------------------------------------------ *)
(* The agent-driven queries                                            *)
(* ------------------------------------------------------------------ *)

\* a network with cycles: 1->2 (2 min), 1->3 (0 min), 2->4, 3->4 (1 min,
\* pedestrian-only, not usable), 3->2 (1 min), 4->1 (1 min)
CycleNet ==
    LoadedNet(GeneratedLinks((0 :> 2) @@ (1 :> 0) @@ (2 :> 1) @@ (3 :> 1) @@
                             (4 :> 1) @@ (5 :> 1)),
              node_size - 1, {"a"}, {0, 2, 3})

InitAgents ==
    /\ G \in [{"A"} -> {DiamondNet, CycleNet}]
    /\ prev_cost_type = "time"
    /\ worker_prev = [w \in {"w1"} |-> "time"]
    /\ lastOp = NoOp

\* the matrix computations start from either network
SpecMatrix == InitAgents /\ [][NextMatrix]_vars

\* the agent-driven queries, between tree queries and the benchmark
NextAgents ==
    \/ FindPathForAgents
    \/ GetShortestPathTree
    \/ BenchmarkApsp
    \/ TakeResult

SpecAgents == InitAgents /\ [][NextAgents]_vars

(* ------------------------------------------------------------------ *)
(* A session of one-to-all calls on two networks                       *)
(* ------------------------------------------------------------------ *)

\* the number of calls of a session
MaxCalls == 5

\* the origins of a session's calls: node 1 and node 3
SessionOrigins == {map_no_to_id[0], map_no_to_id[2]}

\* the calls the caller has made so far, with what each call left
SessionCalls == IF lastOp = NoOp THEN <<>> ELSE lastOp.result.calls

\* what the caller keeps of one single_source_shortest_path call on network
\* n that went from context c0 to context c1: the arguments, whether the
\* cost array was rebuilt, the cost array the engine read, and the tree
SessionEntry(n, c0, c1, orig_node_id, cost_type) ==
    [net       |-> n,
     orig      |-> OrigNodeNo(orig_node_id),
     cost_type |-> cost_type,
     rebuilt   |-> NeedsRebuild(c0.prev, cost_type),
     costs     |-> c1.g.link_cost_array,
     label     |-> c1.g.node_label_cost,
     npred     |-> c1.g.node_preds,
     lpred     |-> c1.g.link_preds]

\* the state after the session's next call
SessionAfter(n, c0, c1, orig_node_id, cost_type) ==
    /\ G' = [G EXCEPT ![n] = c1.g]
    /\ prev_cost_type' = c1.prev
    /\ lastOp' = [op |-> "session", net |-> "all", args |-> <<>>,
                  error |-> "none",
                  result |-> [kind |-> "session",
                              calls |-> Append(SessionCalls,
                                  SessionEntry(n, c0, c1, orig_node_id, cost_type))]]
    /\ UNCHANGED worker_prev

\* single_source_shortest_path(G, orig_node_id, cost_type) on one of the
\* loaded networks, in the one calling process
SessionQuery ==
    \E n \in DOMAIN G, orig_node_id \in SessionOrigins, cost_type \in CostTypes :
        /\ Len(SessionCalls) < MaxCalls
        /\ SessionAfter(n, Cx(n),
                        single_source_shortest_path(Cx(n), orig_node_id, cost_type),
                        orig_node_id, cost_type)

\* two networks loaded in the same process
InitSession ==
    /\ G = [n \in {"A", "B"} |-> IF n = "A" THEN DiamondNet ELSE CycleNet]
    /\ prev_cost_type = "time"
    /\ worker_prev = [w \in {"w1"} |-> "time"]
    /\ lastOp = NoOp

NextSession == SessionQuery

SpecSession == InitSession /\ [][NextSession]_vars

(* ------------------------------------------------------------------ *)
(* The deque scan of one engine call, step by step                     *)
(* ------------------------------------------------------------------ *)

\* the networks scanned: the generated graphs with link costs 0, 1 or
\* MaxCost, every link allowed and every node a through node, the diamond
\* and the network with cycles
ScanNets ==
    {LoadedNet(GeneratedLinks(cost), node_size - 1, {"a", "p"}, {})
        : cost \in [0 .. 5 -> {0, 1, MaxCost}]} \cup {DiamondNet, CycleNet}

\* an engine call is under way
Scanning == lastOp.op = "shortest_path_n"

\* the labels, predecessors, statuses and work queue of the call under way
ScanState == lastOp.result.st

ScanRecord(n, orig, st) ==
    [op |-> "shortest_path_n", net |-> n, args |-> <<orig>>, error |-> "none",
     result |-> [kind |-> "scan", st |-> st]]

\* the first engine call on a loaded network starts: the buffers are
\* allocated and reset, the origin is queued
ScanBegin ==
    \E n \in DOMAIN G, orig \in NodeNos :
        /\ lastOp = NoOp
        /\ ~G[n].has_capi_allocated
        /\ G' = [G EXCEPT ![n] = allocate_for_CAPI(G[n])]
        /\ lastOp' = ScanRecord(n, orig, EngineInit(orig))
        /\ UNCHANGED <<prev_cost_type, worker_prev>>

\* one iteration of the scan loop
ScanNext ==
    /\ Scanning
    /\ ScanState.queue # <<>>
    /\ lastOp' = ScanRecord(lastOp.net, lastOp.args[1],
                            ScanStep(G[lastOp.net], lastOp.args[1], ScanState))
    /\ UNCHANGED <<G, prev_cost_type, worker_prev>>

\* the queue is empty: the call returns, the tree is in G's buffers
ScanEnd ==
    /\ Scanning
    /\ ScanState.queue = <<>>
    /\ G' = [G EXCEPT ![lastOp.net] =
                [@ EXCEPT !.node_label_cost = ScanState.label,
                          !.node_preds = ScanState.npred,
                          !.link_preds = ScanState.lpred]]
    /\ lastOp' = NoOp
    /\ UNCHANGED <<prev_cost_type, worker_prev>>

InitScan ==
    /\ G \in [{"A"} -> ScanNets]
    /\ prev_cost_type = "time"
    /\ worker_prev = [w \in {"w1"} |-> "time"]
    /\ lastOp = NoOp

NextScan ==
    \/ ScanBegin
    \/ ScanNext
    \/ ScanEnd

SpecScan == InitScan /\ [][NextScan]_vars

\* the engine is one sequential loop: a call that has started keeps
\* taking its next step until it returns
SpecScanFair == SpecScan /\ WF_vars(ScanNext) /\ WF_vars(ScanEnd)

(* ------------------------------------------------------------------ *)
(* Reference definitions for the properties                            *)
(* ------------------------------------------------------------------ *)

Min(S) == CHOOSE x \in S : \A y \in S : x <= y

\* the links a path from orig may use: allowed by the mode filter, leaving
\* a through node or the origin
UsableLinks(g, orig) ==
    {k \in LinkNos(g) : LinkAllowed(g, k) /\
                        Expandable(g, orig, g.links[k].from_node_no)}

\* one round of relaxing every usable link (Bellman-Ford)
RelaxRound(g, orig, d) ==
    [v \in NodeNos |->
        Min({d[v]} \cup
            {d[g.links[k].from_node_no] + g.link_cost_array[k] :
                k \in {x \in UsableLinks(g, orig) :
                          g.links[x].to_node_no = v /\
                          d[g.links[x].from_node_no] < MAX_LABEL_COST}})]

RECURSIVE RelaxRounds(_, _, _, _)
RelaxRounds(g, orig, d, rounds) ==
    IF rounds = 0 THEN d
    ELSE RelaxRounds(g, orig, RelaxRound(g, orig, d), rounds - 1)

\* the minimum total link cost from orig to every node over the usable
\* links (MAX_LABEL_COST: no path), under the active cost array
MinCost(g, orig) ==
    RelaxRounds(g, orig,
                [v \in NodeNos |-> IF v = orig THEN 0 ELSE MAX_LABEL_COST],
                node_size - 1)

RECURSIVE SumCosts(_, _)
SumCosts(g, link_ids) ==
    IF link_ids = <<>> THEN 0
    ELSE g.link_cost_array[LinkNoOfId(Head(link_ids))] + SumCosts(g, Tail(link_ids))

\* the origin of the last engine call on g
LastOrigin(g) == g.engine_log[Len(g.engine_log)].orig

(* ------------------------------------------------------------------ *)
(* C1                                                                  *)
(* ------------------------------------------------------------------ *)

\* C1: after a single-source run from origin o, every node v that can be
\* reached from o over links the mode filter allows and that leave a through
\* node or o has label(v) = the minimum total link cost of such paths, and
\* label(v) = the sum of the link costs along the link path reconstructed
\* from v's predecessors.
C1_LabelsAreShortest ==
    \A n \in DOMAIN G :
        G[n].engine_log # <<>> =>
            LET g == G[n]
                o == LastOrigin(g)
                best == MinCost(g, o)
            IN  \A v \in NodeNos :
                    best[v] < MAX_LABEL_COST =>
                        /\ g.node_label_cost[v] = best[v]
                        /\ g.node_label_cost[v] =
                             SumCosts(g, output_path_sequence(g, map_no_to_id[v], "link"))

\* the diamond of the design document after a run from node 1: labels
\* 0, 1, 4, 3 and the path 1, 2, 4 to node 4
C1_Witness ==
    /\ G["A"].links = DiamondLinks
    /\ G["A"].engine_log # <<>>
    /\ LastOrigin(G["A"]) = 0
    /\ G["A"].built_for = "time"
    /\ G["A"].node_label_cost = (0 :> 0) @@ (1 :> 1) @@ (2 :> 4) @@ (3 :> 3)
    /\ output_path_sequence(G["A"], 4, "node") = <<1, 2, 4>>

(* ------------------------------------------------------------------ *)
(* C2                                                                  *)
(* ------------------------------------------------------------------ *)

\* the tree buffers of a network
TreeBuffers(g) ==
    <<g.has_capi_allocated, g.node_label_cost, g.node_preds, g.link_preds>>

\* the agents of network g at the start of a call with arguments args: the
\* column pool is set up first when g has no agents yet
AgentsAtStart(g, op) ==
    IF op.op = "find_path_for_agents" /\ get_agent_count(g) = 0
    THEN setup_agents(g, op.args).agents ELSE g.agents

\* C2: a call that raises 'node not in network' has invoked the engine for
\* no part of that call, and leaves the tree buffers, the cost-selector
\* cache and every agent's path fields as they were when the call started.
C2_UnknownNodeNeverPartial ==
    [][\A n \in DOMAIN G :
          (lastOp'.net = n /\ lastOp'.error = "node_not_in_network") =>
              /\ G'[n].engine_log = <<>>
              /\ TreeBuffers(G'[n]) = TreeBuffers(G[n])
              /\ prev_cost_type' = prev_cost_type
              /\ G'[n].agents = AgentsAtStart(G[n], lastOp')]_vars

(* ------------------------------------------------------------------ *)
(* C3                                                                  *)
(* ------------------------------------------------------------------ *)

\* C3: at every engine invocation of a call, the link cost array the engine
\* reads was last built for the selector the call asked for, and is that
\* selector's array (built from the links' current attributes).
C3_CostArrayIsCurrent ==
    \A n \in DOMAIN G :
        \A i \in 1 .. Len(G[n].engine_log) :
            /\ G[n].engine_log[i].built_for = G[n].engine_log[i].cost_type
            /\ G[n].engine_log[i].current

(* ------------------------------------------------------------------ *)
(* C4                                                                  *)
(* ------------------------------------------------------------------ *)

\* the entry the matrix must hold for origin row_id and destination col_id
\* when the row's engine calls read the cost array used
ExpectedEntry(g, used, row_id, col_id) ==
    LET best == MinCost([g EXCEPT !.link_cost_array = used], map_id_to_no[row_id])
    IN  IF best[map_id_to_no[col_id]] < MAX_LABEL_COST
        THEN best[map_id_to_no[col_id]] ELSE NO_PATH_COST

C5_TreeMapping ==
    (lastOp.op = "get_shortest_path_tree" /\ lastOp.error = "none") =>
        /\ lastOp.result.kind = "dict"
        /\ DOMAIN lastOp.result.tree = KnownIds \ {lastOp.args[1]}
        /\ \A to \in DOMAIN lastOp.result.tree :
             lastOp.result.tree[to] =
                <<get_path_cost(G[lastOp.net], to, lastOp.args[3]),
                  get_path_sequence_str(G[lastOp.net], to, lastOp.args[2])>>

(* ------------------------------------------------------------------ *)
(* C6                                                                  *)
(* ------------------------------------------------------------------ *)

\* whether node ID to can be reached from node ID from in g
Reachable(g, from, to) ==
    MinCost(g, map_id_to_no[from])[map_id_to_no[to]] < MAX_LABEL_COST

\* C6: a one-to-one query between known IDs never raises; when the
\* destination cannot be reached from the origin, find_shortest_path returns
\* the 'infinity' report without walking the predecessor chain and
\* get_shortest_path returns the placeholder cost.
C6_UnreachableIsNoError ==
    /\ (lastOp.op = "find_shortest_path" /\
        lastOp.args[1] \in KnownIds /\ lastOp.args[2] \in KnownIds) =>
          /\ lastOp.error = "none"
          /\ ~Reachable(G[lastOp.net], lastOp.args[1], lastOp.args[2]) =>
                /\ lastOp.result.kind = "infinity"
                /\ ~lastOp.result.walked
    /\ (lastOp.op = "get_shortest_path" /\
        lastOp.args[1] \in KnownIds /\ lastOp.args[2] \in KnownIds) =>
          /\ lastOp.error = "none"
          /\ ~Reachable(G[lastOp.net], lastOp.args[1], lastOp.args[2]) =>
                lastOp.result = [kind |-> "cost", cost |-> NO_PATH_COST]

\* find_shortest_path from 3 to 1 on the diamond has reported 'infinity'
C6_Witness ==
    /\ lastOp.op = "find_shortest_path"
    /\ lastOp.args[1] = 3 /\ lastOp.args[2] = 1
    /\ lastOp.error = "none"
    /\ lastOp.result.kind = "infinity"

(* ------------------------------------------------------------------ *)
(* C10                                                                 *)
(* ------------------------------------------------------------------ *)

\* C10: find_shortest_path_network with an output type outside {.omx, .csv}
\* raises the unsupported-output-type error with no engine call made and
\* the links (their costs), the cost array, the cost-selector cache and the
\* tree buffers unchanged.
C10_BadOutputTypeFirst ==
    [][\A n \in DOMAIN G :
          (lastOp'.op = "find_shortest_path_network" /\ lastOp'.net = n /\
           lastOp'.args[1] \notin valid_types) =>
              /\ lastOp'.error = "unsupported_output_type"
              /\ G'[n].engine_log = <<>>
              /\ G'[n].links = G[n].links
              /\ G'[n].link_cost_array = G[n].link_cost_array
              /\ TreeBuffers(G'[n]) = TreeBuffers(G[n])
              /\ prev_cost_type' = prev_cost_type
              /\ worker_prev' = worker_prev]_vars

\* the unsupported-output-type error has been raised for a bike matrix
C10_Witness ==
    /\ lastOp.op = "find_shortest_path_network"
    /\ lastOp.args[1] = ".txt"
    /\ lastOp.args[3] = "b"
    /\ lastOp.error = "unsupported_output_type"

(* ------------------------------------------------------------------ *)
(* C7                                                                  *)
(* ------------------------------------------------------------------ *)

\* the agents the last find_path_for_agents call went through
Agents == G[lastOp.net].agents

SameOD(a) == a.o_node_id = a.d_node_id

\* the agents for which the loop reached its cache test
CacheTested == {i \in 1 .. Len(lastOp.result.trace) :
                    lastOp.result.trace[i] \in {"engine", "reused"}}

RECURSIVE PrecedingTreeOrigin(_)
PrecedingTreeOrigin(i) ==
    IF i = 1 THEN NO_ID
    ELSE IF SameOD(Agents[i - 1]) THEN PrecedingTreeOrigin(i - 1)
    ELSE Agents[i - 1].o_node_id

\* the origins of the engine calls the trace tells of, in list order
RECURSIVE EngineOrigins(_)
EngineOrigins(i) ==
    IF i = 0 THEN <<>>
    ELSE EngineOrigins(i - 1) \o
         (IF lastOp.result.trace[i] = "engine"
          THEN <<map_id_to_no[Agents[i].o_node_id]>> ELSE <<>>)

FreshTree(g, o) == optimal_label_correcting_CAPI(g, map_id_to_no[o])

\* C8: after find_path_for_agents completes, every agent whose destination
\* differs from and can be reached from its origin holds the label of its
\* destination in a freshly computed tree of its own origin as path_cost,
\* and the node and link walks of that tree as node_path and link_path
\* (node_path one longer than link_path); every other agent has both left
\* empty.
C8_AgentPathsMatchOwnTree ==
    (lastOp.op = "find_path_for_agents" /\ lastOp.error = "none") =>
        \A i \in 1 .. Len(Agents) :
            LET a == Agents[i]
                g == G[lastOp.net]
                d == map_id_to_no[a.d_node_id]
            IN  IF /\ ~SameOD(a)
                   /\ a.o_node_id \in KnownIds /\ a.d_node_id \in KnownIds
                   /\ Reachable(g, a.o_node_id, a.d_node_id)
                THEN /\ a.path_cost = FreshTree(g, a.o_node_id).node_label_cost[d]
                     /\ a.path_cost = MinCost(g, map_id_to_no[a.o_node_id])[d]
                     /\ a.node_path = NodeWalk(FreshTree(g, a.o_node_id), d)
                     /\ a.link_path = LinkWalk(FreshTree(g, a.o_node_id), d)
                     /\ Len(a.node_path) = Len(a.link_path) + 1
                ELSE a.node_path = <<>> /\ a.link_path = <<>>

\* a completed run over (1,4), (3,4), (3,1) on the diamond: costs 3 and 1
\* with their paths, and the unreachable third agent left without a path
C8_Witness ==
    /\ lastOp.op = "find_path_for_agents" /\ lastOp.error = "none"
    /\ G[lastOp.net].links = DiamondLinks
    /\ Len(Agents) = 3
    /\ Agents[1].o_node_id = 1 /\ Agents[1].path_cost = 3
    /\ Agents[1].node_path = <<3, 1, 0>> /\ Agents[1].link_path = <<2, 0>>
    /\ Agents[2].o_node_id = 3 /\ Agents[2].path_cost = 1
    /\ Agents[2].node_path = <<3, 2>> /\ Agents[2].link_path = <<3>>
    /\ Agents[3].d_node_id = 1 /\ Agents[3].node_path = <<>>

(* ------------------------------------------------------------------ *)
(* C9                                                                  *)
(* ------------------------------------------------------------------ *)

\* nodes is a node-number sequence from orig to dest and links the link
\* numbers joining its consecutive nodes
IsPathFromTo(g, nodes, links, orig, dest) ==
    /\ Len(nodes) = Len(links) + 1
    /\ nodes[1] = orig
    /\ nodes[Len(nodes)] = dest
    /\ \A k \in 1 .. Len(links) :
          /\ g.links[links[k]].from_node_no = nodes[k]
          /\ g.links[links[k]].to_node_no = nodes[k + 1]

\* the sequences output_path_sequence yields, as node and link numbers
YieldedNodes(g, to_node_id) ==
    LET ids == output_path_sequence(g, to_node_id, "node")
    IN  [k \in 1 .. Len(ids) |-> map_id_to_no[ids[k]]]

YieldedLinks(g, to_node_id) ==
    LET ids == output_path_sequence(g, to_node_id, "link")
    IN  [k \in 1 .. Len(ids) |-> LinkNoOfId(ids[k])]

\* output_path_sequence on the tree of the last engine call: for every
\* reached destination the node sequence runs from the origin to the
\* destination and the k-th link joins the k-th and (k+1)-th nodes; for the
\* origin itself it is the single node and no link
OutputPathsOrdered ==
    \A n \in DOMAIN G :
        G[n].engine_log # <<>> =>
            \A v \in NodeNos :
                G[n].node_label_cost[v] < MAX_LABEL_COST =>
                    /\ IsPathFromTo(G[n], YieldedNodes(G[n], map_no_to_id[v]),
                                    YieldedLinks(G[n], map_no_to_id[v]),
                                    LastOrigin(G[n]), v)
                    /\ (v = LastOrigin(G[n])) =>
                          /\ YieldedNodes(G[n], map_no_to_id[v]) = <<v>>
                          /\ YieldedLinks(G[n], map_no_to_id[v]) = <<>>

\* the agents that hold a path after a completed find_path_for_agents
WithPath == IF lastOp.op = "find_path_for_agents" /\ lastOp.error = "none"
            THEN {i \in 1 .. Len(Agents) : Agents[i].link_path # <<>>}
            ELSE {}

\* C9 as stated: both reconstructions, output_path_sequence and the one of
\* find_path_for_agents, give the node and link sequences ordered from the
\* origin to the destination.
C9_PathsFromOriginToDestination ==
    /\ OutputPathsOrdered
    /\ \A i \in WithPath :
          IsPathFromTo(G[lastOp.net], Agents[i].node_path, Agents[i].link_path,
                       map_id_to_no[Agents[i].o_node_id],
                       map_id_to_no[Agents[i].d_node_id])

\* C9 (amended): output_path_sequence gives the node and link sequences
\* ordered from the origin to the destination (single node, no link, for
\* the origin itself); the node_path and link_path find_path_for_agents
\* stores are those sequences in the opposite order, destination first.
C9_OutputOrderedAgentsReversed ==
    /\ OutputPathsOrdered
    /\ \A i \in WithPath :
          IsPathFromTo(G[lastOp.net], Reversed(Agents[i].node_path),
                       Reversed(Agents[i].link_path),
                       map_id_to_no[Agents[i].o_node_id],
                       map_id_to_no[Agents[i].d_node_id])

\* on the network with cycles, the tree of origin 1 gives the path 1, 3, 2, 4
\* over links 1->3, 3->2, 2->4, and an agent from 1 to 4 holds it reversed
C9_Witness ==
    /\ lastOp.op = "find_path_for_agents" /\ lastOp.error = "none"
    /\ G[lastOp.net].engine_log # <<>>
    /\ LastOrigin(G[lastOp.net]) = 0
    /\ output_path_sequence(G[lastOp.net], 4, "node") = <<1, 3, 2, 4>>
    /\ output_path_sequence(G[lastOp.net], 4, "link") = <<102, 105, 103>>
    /\ \E i \in WithPath : Agents[i].node_path = <<3, 1, 2, 0>>

(* ------------------------------------------------------------------ *)
(* C11                                                                 *)
(* ------------------------------------------------------------------ *)

\* the tree of a session call
TreeOf(c) == <<c.label, c.npred, c.lpred>>

\* the tree a first call for origin o leaves on network g as loaded, the
\* engine reading the cost array costs
FirstCallTree(g, costs, o) ==
    LET g0 == allocate_for_CAPI([g EXCEPT !.has_capi_allocated = FALSE,
                                          !.link_cost_array = costs])
        g1 == optimal_label_correcting_CAPI(g0, o)
    IN  <<g1.node_label_cost, g1.node_preds, g1.link_preds>>

TimeDistanceTime(calls, i) ==
    /\ calls[i].net = calls[i + 1].net /\ calls[i].net = calls[i + 2].net
    /\ calls[i].cost_type = "time"
    /\ calls[i + 1].cost_type = "distance"
    /\ calls[i + 2].cost_type = "time"
    /\ calls[i].orig = calls[i + 2].orig

\* C12: querying an origin under 'time', then querying under 'distance',
\* then querying the origin under 'time' again leaves the tree of the
\* first of the three queries.
C12_TimeDistanceTimeSameTree ==
    LET calls == SessionCalls
    IN  \A i \in 1 .. Len(calls) - 2 :
            TimeDistanceTime(calls, i) => TreeOf(calls[i + 2]) = TreeOf(calls[i])

(* ------------------------------------------------------------------ *)
(* C13                                                                 *)
(* ------------------------------------------------------------------ *)

\* the rows the task of row i can give when it is the only task run: in the
\* calling process on G, or in a worker on a copy of G
RowsAlone(g, row_nodes, cost_type, i) ==
    {compute_row_distances([g |-> g, prev |-> p], row_nodes[i], row_nodes,
                           cost_type).row
        : p \in {prev_cost_type} \cup {worker_prev[w] : w \in Workers}}

\* C13: in every matrix computation, whichever way the rows are shared out
\* among the workers, row i of the assembled matrix is the row the task of
\* origin i gives when it runs alone.
C13_RowsAsComputedAlone ==
    [][ ( /\ lastOp = NoOp
          /\ lastOp'.op = "create_numpy_matrix_parallel"
          /\ lastOp'.error = "none" )
        => LET n    == lastOp'.net
               rows == lastOp'.args[1]
           IN  \A i \in 1 .. Len(rows) :
                   lastOp'.result.matrix[i] \in
                       RowsAlone([G[n] EXCEPT !.engine_log = <<>>], rows,
                                 lastOp'.args[2], i) ]_vars

(* ------------------------------------------------------------------ *)
(* C14                                                                 *)
(* ------------------------------------------------------------------ *)

\* C14: in every matrix computation the cost array is not rewritten after
\* the first row task is dispatched: every row's engine calls read the cost
\* array as it stood when the rows were dispatched.
C14_NoCostMutationAfterDispatch ==
    [][ ( /\ lastOp = NoOp
          /\ lastOp'.op = "create_numpy_matrix_parallel"
          /\ lastOp'.error = "none" )
        => \A i \in 1 .. Len(lastOp'.result.used) :
               lastOp'.result.used[i] = G[lastOp'.net].link_cost_array ]_vars

(* ------------------------------------------------------------------ *)
(* C15                                                                 *)
(* ------------------------------------------------------------------ *)

\* following node predecessors from v reaches 'none' after at most k nodes
RECURSIVE PredChainEnds(_, _, _)
PredChainEnds(g, v, k) ==
    IF v = NONE THEN TRUE
    ELSE IF k = 0 \/ v \notin NodeNos THEN FALSE
    ELSE PredChainEnds(g, g.node_preds[v], k - 1)

\* node v of the tree is unreached: sentinel label, no predecessors
Unreached(g, v) ==
    /\ g.node_label_cost[v] = MAX_LABEL_COST
    /\ g.node_preds[v] = NONE
    /\ g.link_preds[v] = NONE

\* node v of the tree hangs on its predecessor link, which runs from its
\* predecessor node to v, and its label is the predecessor's plus the
\* link's cost
HangsOnPredecessor(g, v) ==
    /\ g.node_label_cost[v] < MAX_LABEL_COST
    /\ g.node_preds[v] \in NodeNos
    /\ g.link_preds[v] \in LinkNos(g)
    /\ g.links[g.link_preds[v]].from_node_no = g.node_preds[v]
    /\ g.links[g.link_preds[v]].to_node_no = v
    /\ g.node_label_cost[v] =
         g.node_label_cost[g.node_preds[v]] + g.link_cost_array[g.link_preds[v]]

\* C15: the tree left by an engine call for origin o has label 0 and no
\* predecessors at o; every other node is either unreached (sentinel, no
\* predecessors) or hangs on its predecessor link with label = label of the
\* predecessor node + cost of the predecessor link; and the node
\* predecessors lead from every node to 'none' within node_size steps.
C15_TreeWellFormed ==
    \A n \in DOMAIN G :
        G[n].engine_log # <<>> =>
            LET g == G[n]
                o == LastOrigin(g)
            IN  /\ g.node_label_cost[o] = 0
                /\ g.node_preds[o] = NONE
                /\ g.link_preds[o] = NONE
                /\ \A v \in NodeNos \ {o} : Unreached(g, v) \/ HangsOnPredecessor(g, v)
                /\ \A v \in NodeNos : PredChainEnds(g, v, node_size)

\* node 4 of the diamond has no outgoing link: after a call for it every
\* other node is unreached
C15_Witness ==
    /\ G["A"].links = DiamondLinks
    /\ G["A"].engine_log # <<>>
    /\ LastOrigin(G["A"]) = 3
    /\ OutLinks(G["A"], 3) = <<>>
    /\ G["A"].node_label_cost[3] = 0
    /\ \A v \in NodeNos \ {3} : Unreached(G["A"], v)

(* ------------------------------------------------------------------ *)
(* C16                                                                 *)
(* ------------------------------------------------------------------ *)

\* no node occurs twice in the work queue, the queue holds exactly the
\* nodes of status 'queued', and so never more entries than there are nodes
QueueBounded ==
    Scanning =>
        LET q == ScanState.queue
        IN  /\ \A i, j \in 1 .. Len(q) : q[i] = q[j] => i = j
            /\ \A v \in NodeNos :
                  (ScanState.status[v] = "queued") <=> (\E i \in 1 .. Len(q) : q[i] = v)
            /\ Len(q) <= node_size

\* C16: at every step of the deque scan each node occurs in the work queue
\* at most once, so the queue never holds more than node_size entries; and
\* every scan that has started reaches the empty queue and returns.
C16_ScanTerminatesQueueBounded ==
    /\ []QueueBounded
    /\ (Scanning ~> ~Scanning)

\* a scan of the network with cycles from node 1 has emptied its queue
\* after every node was queued and scanned
C16_Witness ==
    /\ Scanning
    /\ G["A"].links = CycleNet.links
    /\ lastOp.args = <<0>>
    /\ ScanState.queue = <<>>
    /\ \A v \in NodeNos : ScanState.status[v] = "scanned"

(* ------------------------------------------------------------------ *)
(* C17                                                                 *)
(* ------------------------------------------------------------------ *)

\* C17: in the tree left by an engine call for origin o, a node beyond the
\* last through node is the predecessor of another node only if it is o.
C17_NoHopBeyondThruNode ==
    \A n \in DOMAIN G :
        G[n].engine_log # <<>> =>
            \A v \in NodeNos :
                G[n].node_preds[v] # NONE =>
                    \/ G[n].node_preds[v] <= G[n].last_thru_node
                    \/ G[n].node_preds[v] = LastOrigin(G[n])

\* through nodes 1 and 2 only, a call for node 1: node 3 is reached as a
\* destination, and going on through it over the allowed link 3->2 would
\* be cheaper for node 2 than the label node 2 got
C17_Witness ==
    LET g == G["A"]
    IN  /\ g.engine_log # <<>>
        /\ LastOrigin(g) = 0
        /\ g.last_thru_node = 1
        /\ g.node_label_cost[2] < MAX_LABEL_COST
        /\ g.links[4].from_node_no = 2 /\ g.links[4].to_node_no = 1
        /\ LinkAllowed(g, 4)
        /\ g.node_label_cost[2] + g.link_cost_array[4] < g.node_label_cost[1]

(* ------------------------------------------------------------------ *)
(* C18                                                                 *)
(* ------------------------------------------------------------------ *)

\* the links the mode filter f permits on g
PermittedLinks(g, f) == {k \in LinkNos(g) : g.links[k].allowed_uses \cap f # {}}

\* the labels an engine call for origin o leaves on g under mode filter f
LabelsUnder(g, f, o) ==
    optimal_label_correcting_CAPI([g EXCEPT !.agent_type = f], o).node_label_cost

\* C18: for the same graph, costs and origin, if the mode filter f1 permits
\* a subset of the links the mode filter f2 permits, every node's label
\* under f1 is at least its label under f2.
C18_RestrictionNeverLowersLabel ==
    \A n \in DOMAIN G :
        G[n].engine_log # <<>> =>
            \A f1 \in ModeFilters, f2 \in ModeFilters :
                PermittedLinks(G[n], f1) \subseteq PermittedLinks(G[n], f2) =>
                    \A v \in NodeNos :
                        LabelsUnder(G[n], f1, LastOrigin(G[n]))[v] >=
                            LabelsUnder(G[n], f2, LastOrigin(G[n]))[v]

\* a call under the filter {a}, which permits fewer links than {a, p}: a
\* node is reached under both and its label is higher under {a}
C18_Witness ==
    LET g == G["A"]
    IN  /\ g.engine_log # <<>>
        /\ g.agent_type = {"a"}
        /\ PermittedLinks(g, {"a"}) # PermittedLinks(g, {"a", "p"})
        /\ g.node_label_cost = LabelsUnder(g, {"a"}, LastOrigin(g))
        /\ \E v \in NodeNos :
              /\ g.node_label_cost[v] < MAX_LABEL_COST
              /\ LabelsUnder(g, {"a", "p"}, LastOrigin(g))[v] < g.node_label_cost[v]

(* ------------------------------------------------------------------ *)
(* C19                                                                 *)
(* ------------------------------------------------------------------ *)

\* the calls before call i that were made on the network of call i
RECURSIVE OwnEarlierCalls(_, _, _)
OwnEarlierCalls(calls, i, j) ==
    IF j = 0 THEN <<>>
    ELSE IF calls[j].net = calls[i].net
         THEN Append(OwnEarlierCalls(calls, i, j - 1), j)
         ELSE OwnEarlierCalls(calls, i, j - 1)

\* the selector last requested on the network of call i before call i; the
\* selector the network's cost array is loaded with if there was none
OwnPreviousSelector(calls, i) ==
    LET own == OwnEarlierCalls(calls, i, i - 1)
    IN  IF own = <<>> THEN "time" ELSE calls[own[Len(own)]].cost_type

\* C19: whether a call rebuilds its network's cost array depends only on
\* the selectors requested on that network before (it rebuilds exactly when
\* the selector differs from the last one requested there), and the engine
\* reads the array of the selector the call asked for, whatever was queried
\* on the other network in between.
C19_CacheIsPerNetwork ==
    LET calls == SessionCalls
    IN  \A i \in 1 .. Len(calls) :
            /\ calls[i].rebuilt = (calls[i].cost_type # OwnPreviousSelector(calls, i))
            /\ calls[i].costs = CostArrayFor(G[calls[i].net], calls[i].cost_type)

(* ------------------------------------------------------------------ *)
(* C20                                                                 *)
(* ------------------------------------------------------------------ *)

\* the mode of a mode type
ModeOfType(type) == CHOOSE m \in Modes : m.type = type

\* the skim matrix of network g as loaded for a mode and a cost selector:
\* the shortest-path costs between the centroids under the selector's cost
\* array built from the links as the mode's transform leaves them
SkimOf(g, mode, cost_type) ==
    LET rows  == RowNodes(g)
        g1    == ModeTransform(g, mode)
        costs == CostArrayFor(g1, cost_type)
    IN  [i \in 1 .. Len(rows) |->
            [j \in 1 .. Len(rows) |-> ExpectedEntry(g1, costs, rows[i], rows[j])]]

\* C20: the matrix find_shortest_path_network saves for a mode and a cost
\* selector is the skim matrix of the network as loaded for that mode and
\* selector, whatever matrices were computed on the network before.
C20_SkimDeterminedByModeAndSelector ==
    lastOp.result.kind = "saved_matrix" =>
        lastOp.result.matrix =
            SkimOf(DiamondNet, ModeOfType(lastOp.args[3]), lastOp.args[2])

====
